---- MODULE Spec2Model ----
(***************************************************************************)
(* Model of the position-replay and per-ply classification core of         *)
(* pawn_blockers: modules/core/board_analysis.py, classification.py and    *)
(* metrics.py, and of the batch loop of modules/analysis/comparisons.py.   *)
(*                                                                         *)
(* A board is a record [piece_map, turn]; piece_map maps the 64 squares    *)
(* (chess.square(file, rank) = rank * 8 + file) to a piece <<type, color>> *)
(* or to None.  Colours are booleans as in python-chess (WHITE = True).    *)
(* Python lists are sequences read through At (0-based, as the source).    *)
(***************************************************************************)
EXTENDS Integers, Sequences, FiniteSets, TLC

VARIABLES headers, board, positions, moves, moves_played, max_plies, pc,
          buckets, fates, trace, summary,
          pgn_games, game_filter, min_exposure, results, game_index

\* the state of a batch (analyze_game_collection)
batch_vars == <<pgn_games, game_filter, min_exposure, results, game_index>>

\* the state of the replay and analysis of one game
game_vars == <<headers, board, positions, moves, moves_played, buckets, fates,
               trace, summary>>

vars == <<headers, board, positions, moves, moves_played, max_plies, pc,
          buckets, fates, trace, summary,
          pgn_games, game_filter, min_exposure, results, game_index>>

----------------------------------------------------------------------------
(* Bounds of the model *)

\* largest ply cap (max_plies) a game is replayed with
MaxPlies == 4

\* largest number of PGN strings in a batch
MaxGames == 2

----------------------------------------------------------------------------
(* python-chess vocabulary used by the source *)

WHITE == TRUE
BLACK == FALSE
COLORS == {WHITE, BLACK}

PAWN == 1
KNIGHT == 2
BISHOP == 3
ROOK == 4
QUEEN == 5
KING == 6

\* piece_at() of an empty square
None == <<>>

Piece(type, color) == <<type, color>>
piece_type(piece) == piece[1]
piece_color(piece) == piece[2]

SQUARES == 0..63
square(file_idx, rank_idx) == rank_idx * 8 + file_idx
square_file(sq) == sq % 8
square_rank(sq) == sq \div 8

piece_at(position, sq) == position.piece_map[sq]

\* 0-based read of a Python list
At(list, i) == list[i + 1]

\* list[:n]
Prefix(list, n) == SubSeq(list, 1, n)

\* any(list) for a list of booleans
any_true(list) == \E i \in 1..Len(list) : list[i]

SetMin(S) == CHOOSE x \in S : \A y \in S : x <= y

----------------------------------------------------------------------------
(* modules/core/board_analysis.py *)

FILES == <<"a", "b", "c", "d", "e", "f", "g", "h">>

get_file_index(file_letter) == (CHOOSE i \in 1..Len(FILES) : FILES[i] = file_letter) - 1

\* the squares with Black's square ahead taken in White's direction
get_pawn_start_and_ahead_squares_one_way(file_idx, color) ==
    IF color = WHITE
    THEN <<square(file_idx, 1), square(file_idx, 2)>>
    ELSE <<square(file_idx, 6), square(file_idx, 7)>>

get_pawn_start_and_ahead_squares(file_idx, color) ==
    IF color = WHITE
    THEN <<square(file_idx, 1), square(file_idx, 2)>>
    ELSE <<square(file_idx, 6), square(file_idx, 5)>>

is_pawn_exposed(position, file_idx, color) ==
    LET start_sq == get_pawn_start_and_ahead_squares(file_idx, color)[1]
        piece == piece_at(position, start_sq)
    IN  piece # None /\ piece_type(piece) = PAWN /\ piece_color(piece) = color

\* blocker_piece_type of an empty square (Python None)
NoPieceType == 0

\* get_blocking_info raising enemy_block for every occupant
get_blocking_info_enemy_any(position, file_idx, color) ==
    LET ahead_sq == get_pawn_start_and_ahead_squares(file_idx, color)[2]
        piece == piece_at(position, ahead_sq)
    IN  IF piece = None
        THEN <<FALSE, FALSE, FALSE, NoPieceType>>
        ELSE IF piece_color(piece) = color
             THEN <<piece_type(piece) # PAWN, TRUE, TRUE, piece_type(piece)>>
             ELSE <<FALSE, TRUE, TRUE, piece_type(piece)>>

\* get_blocking_info computing any_block from the two other flags
get_blocking_info_any_flagged(position, file_idx, color) ==
    LET ahead_sq == get_pawn_start_and_ahead_squares(file_idx, color)[2]
        piece == piece_at(position, ahead_sq)
    IN  IF piece = None
        THEN <<FALSE, FALSE, FALSE, NoPieceType>>
        ELSE IF piece_color(piece) = color
             THEN <<piece_type(piece) # PAWN, FALSE, piece_type(piece) # PAWN,
                    piece_type(piece)>>
             ELSE <<FALSE, TRUE, TRUE, piece_type(piece)>>

\* (friendly_non_pawn_block, enemy_block, any_block, blocker_piece_type)
get_blocking_info(position, file_idx, color) ==
    LET ahead_sq == get_pawn_start_and_ahead_squares(file_idx, color)[2]
        piece == piece_at(position, ahead_sq)
    IN  IF piece = None
        THEN <<FALSE, FALSE, FALSE, NoPieceType>>
        ELSE IF piece_color(piece) = color
             THEN <<piece_type(piece) # PAWN, FALSE, TRUE, piece_type(piece)>>
             ELSE <<FALSE, TRUE, TRUE, piece_type(piece)>>

----------------------------------------------------------------------------
(* modules/core/classification.py: classify_f_bucket_for_color *)

\* move_off_ply = None
NoPly == 0 - 1

\* the per-ply list `exposed`
exposed_list(position_list, color) ==
    LET file_idx == get_file_index("f")
        start_sq == get_pawn_start_and_ahead_squares(file_idx, color)[1]
    IN  [i \in 1..Len(position_list) |->
            LET pawn == piece_at(position_list[i], start_sq)
            IN  pawn # None /\ piece_type(pawn) = PAWN /\ piece_color(pawn) = color]

\* friendly_blocks with the piece_type != PAWN test left out
friendly_blocks_any_piece(position_list, color) ==
    LET file_idx == get_file_index("f")
        ahead_sq == get_pawn_start_and_ahead_squares(file_idx, color)[2]
        exposed == exposed_list(position_list, color)
    IN  [i \in 1..Len(position_list) |->
            IF exposed[i]
            THEN LET blocker == piece_at(position_list[i], ahead_sq)
                 IN  blocker # None /\ piece_color(blocker) = color
            ELSE FALSE]

\* friendly_blocks with the `if is_exposed` guard left out
friendly_blocks_unguarded(position_list, color) ==
    LET file_idx == get_file_index("f")
        ahead_sq == get_pawn_start_and_ahead_squares(file_idx, color)[2]
    IN  [i \in 1..Len(position_list) |->
            LET blocker == piece_at(position_list[i], ahead_sq)
            IN  blocker # None /\ piece_color(blocker) = color
                    /\ piece_type(blocker) # PAWN]

\* the per-ply list `friendly_blocks`
friendly_blocks_list(position_list, color) ==
    LET file_idx == get_file_index("f")
        ahead_sq == get_pawn_start_and_ahead_squares(file_idx, color)[2]
        exposed == exposed_list(position_list, color)
    IN  [i \in 1..Len(position_list) |->
            IF exposed[i]
            THEN LET blocker == piece_at(position_list[i], ahead_sq)
                 IN  blocker # None /\ piece_color(blocker) = color
                        /\ piece_type(blocker) # PAWN
            ELSE FALSE]

\* the scan stopping one ply early: range(1, len(positions) - 1)
find_move_off_ply_short(exposed) ==
    LET hits == {t \in 1..(Len(exposed) - 2) : At(exposed, t - 1) /\ ~At(exposed, t)}
    IN  IF hits = {} THEN NoPly ELSE SetMin(hits)

\* first t in range(1, len) with exposed[t - 1] and not exposed[t]
find_move_off_ply(exposed) ==
    LET hits == {t \in 1..(Len(exposed) - 1) : At(exposed, t - 1) /\ ~At(exposed, t)}
    IN  IF hits = {} THEN NoPly ELSE SetMin(hits)

\* the destination check without its final else branch
landing_bucket_no_else(position, color) ==
    LET file_idx == get_file_index("f")
        f3_or_f6 == square(file_idx, IF color = WHITE THEN 2 ELSE 5)
        f4_or_f5 == square(file_idx, IF color = WHITE THEN 3 ELSE 4)
        pawn_on_f3 == piece_at(position, f3_or_f6)
        pawn_on_f4 == piece_at(position, f4_or_f5)
    IN  IF pawn_on_f3 # None /\ piece_type(pawn_on_f3) = PAWN /\ piece_color(pawn_on_f3) = color
        THEN "A2"
        ELSE IF pawn_on_f4 # None /\ piece_type(pawn_on_f4) = PAWN
                    /\ piece_color(pawn_on_f4) = color
             THEN "A3"
             ELSE "None"

\* the destination check with Black's two ranks exchanged
landing_bucket_swapped(position, color) ==
    LET file_idx == get_file_index("f")
        f3_or_f6 == square(file_idx, IF color = WHITE THEN 2 ELSE 4)
        f4_or_f5 == square(file_idx, IF color = WHITE THEN 3 ELSE 5)
        pawn_on_f3 == piece_at(position, f3_or_f6)
        pawn_on_f4 == piece_at(position, f4_or_f5)
    IN  IF pawn_on_f3 # None /\ piece_type(pawn_on_f3) = PAWN /\ piece_color(pawn_on_f3) = color
        THEN "A2"
        ELSE IF pawn_on_f4 # None /\ piece_type(pawn_on_f4) = PAWN
                    /\ piece_color(pawn_on_f4) = color
             THEN "A3"
             ELSE "other"

\* destination check on positions[move_off_ply]
landing_bucket(position, color) ==
    LET file_idx == get_file_index("f")
        f3_or_f6 == square(file_idx, IF color = WHITE THEN 2 ELSE 5)
        f4_or_f5 == square(file_idx, IF color = WHITE THEN 3 ELSE 4)
        pawn_on_f3 == piece_at(position, f3_or_f6)
        pawn_on_f4 == piece_at(position, f4_or_f5)
    IN  IF pawn_on_f3 # None /\ piece_type(pawn_on_f3) = PAWN /\ piece_color(pawn_on_f3) = color
        THEN "A2"
        ELSE IF pawn_on_f4 # None /\ piece_type(pawn_on_f4) = PAWN
                    /\ piece_color(pawn_on_f4) = color
             THEN "A3"
             ELSE "other"

\* the search for block_start begun at ply 1
find_block_start_from_one(friendly_blocks) ==
    LET hits == {t \in 1..(Len(friendly_blocks) - 1) : At(friendly_blocks, t)}
    IN  IF hits = {} THEN NoPly ELSE SetMin(hits)

\* the search for block_end taking the last ply that qualifies
find_block_end_last(exposed, friendly_blocks, block_start) ==
    LET hits == {t \in (block_start + 1)..(Len(exposed) - 1) :
                    \/ ~At(exposed, t)
                    \/ At(exposed, t) /\ ~At(friendly_blocks, t)}
    IN  IF hits = {} THEN Len(exposed) ELSE CHOOSE t \in hits : \A u \in hits : u <= t

\* first t with friendly_blocks[t]
find_block_start(friendly_blocks) ==
    LET hits == {t \in 0..(Len(friendly_blocks) - 1) : At(friendly_blocks, t)}
    IN  IF hits = {} THEN NoPly ELSE SetMin(hits)

\* end of the blocking episode, len(positions) when censored
find_block_end(exposed, friendly_blocks, block_start) ==
    LET hits == {t \in (block_start + 1)..(Len(exposed) - 1) :
                    \/ ~At(exposed, t)
                    \/ At(exposed, t) /\ ~At(friendly_blocks, t)}
    IN  IF hits = {} THEN Len(exposed) ELSE SetMin(hits)

\* the threshold off by one
duration_bucket_strict(duration) == IF duration < 2 THEN "B4" ELSE "B5"

duration_bucket(duration) == IF duration <= 2 THEN "B4" ELSE "B5"

classify_f_bucket_for_color(position_list, color, plies) ==
    LET exposed == exposed_list(position_list, color)
        friendly_blocks == friendly_blocks_list(position_list, color)
        move_off_ply == find_move_off_ply(exposed)
        any_friendly_block == any_true(friendly_blocks)
    IN  IF move_off_ply = NoPly /\ ~any_friendly_block
        THEN "A1"
        ELSE IF move_off_ply # NoPly /\ ~any_true(Prefix(friendly_blocks, move_off_ply))
             THEN landing_bucket(At(position_list, move_off_ply), color)
             ELSE LET block_start == find_block_start(friendly_blocks)
                  IN  IF block_start = NoPly
                      THEN "other"
                      ELSE duration_bucket(
                               find_block_end(exposed, friendly_blocks, block_start)
                                   - block_start)

----------------------------------------------------------------------------
(* modules/core/metrics.py: track_f_pawn_fate *)

F2 == 13
F3 == 21
F4 == 29
E3 == 20
G3 == 22
F7 == 53
F6 == 45
F5 == 37
E6 == 44
G6 == 46

\* f_file_idx = 5
F_FILE_IDX == 5

FATE_KEYS == {"never_blocked", "push_f3", "push_f4", "capture_e3", "capture_g3",
              "temporary_block", "permanent_block"}

\* the initial `fates` dictionary
ZeroFates == [k \in FATE_KEYS |-> 0]

\* pawn_movement_fate = None
NoFate == "None"

\* the f4/f5 test made before the f3/f6 test
_determine_pawn_movement_f4_first(before_pos, after_pos, file_idx, color) ==
    LET f3 == IF color = WHITE THEN F3 ELSE F6
        f4 == IF color = WHITE THEN F4 ELSE F5
        e3 == IF color = WHITE THEN E3 ELSE E6
        g3 == IF color = WHITE THEN G3 ELSE G6
        IsOwnPawn(piece) ==
            piece # None /\ piece_type(piece) = PAWN /\ piece_color(piece) = color
    IN  IF IsOwnPawn(piece_at(after_pos, f4)) THEN "push_f4"
        ELSE IF IsOwnPawn(piece_at(after_pos, f3)) THEN "push_f3"
        ELSE IF IsOwnPawn(piece_at(after_pos, e3)) THEN "capture_e3"
        ELSE IF IsOwnPawn(piece_at(after_pos, g3)) THEN "capture_g3"
        ELSE NoFate

_determine_pawn_movement(before_pos, after_pos, file_idx, color) ==
    LET f3 == IF color = WHITE THEN F3 ELSE F6
        f4 == IF color = WHITE THEN F4 ELSE F5
        e3 == IF color = WHITE THEN E3 ELSE E6
        g3 == IF color = WHITE THEN G3 ELSE G6
        IsOwnPawn(piece) ==
            piece # None /\ piece_type(piece) = PAWN /\ piece_color(piece) = color
    IN  IF IsOwnPawn(piece_at(after_pos, f3)) THEN "push_f3"
        ELSE IF IsOwnPawn(piece_at(after_pos, f4)) THEN "push_f4"
        ELSE IF IsOwnPawn(piece_at(after_pos, e3)) THEN "capture_e3"
        ELSE IF IsOwnPawn(piece_at(after_pos, g3)) THEN "capture_g3"
        ELSE NoFate

\* the plies appended to pawn_present_plies (an increasing list)
pawn_present_plies_of(position_list, color) ==
    {ply_idx \in 0..(Len(position_list) - 1) :
        is_pawn_exposed(At(position_list, ply_idx), F_FILE_IDX, color)}

\* the plies appended to blocked_plies (an increasing list)
blocked_plies_of(position_list, color) ==
    {ply_idx \in pawn_present_plies_of(position_list, color) :
        get_blocking_info(At(position_list, ply_idx), F_FILE_IDX, color)[1]}

\* the plies at which the movement loop would break
pawn_move_plies(position_list, color) ==
    {ply_idx \in 0..(Len(position_list) - 2) :
        /\ ply_idx \in pawn_present_plies_of(position_list, color)
        /\ ply_idx + 1 < Len(position_list)
        /\ ~is_pawn_exposed(At(position_list, ply_idx + 1), F_FILE_IDX, color)}

\* pawn_freed decided on the last ply only
is_pawn_freed_at_end(position_list, color, first_block_ply) ==
    LET ply_idx == Len(position_list) - 1
    IN  /\ ply_idx > first_block_ply
        /\ ply_idx \in pawn_present_plies_of(position_list, color)
        /\ ~get_blocking_info(At(position_list, ply_idx), F_FILE_IDX, color)[1]

\* pawn_freed after the loop over range(first_block_ply + 1, len(positions))
is_pawn_freed(position_list, color, first_block_ply) ==
    \E ply_idx \in (first_block_ply + 1)..(Len(position_list) - 1) :
        /\ ply_idx \in pawn_present_plies_of(position_list, color)
        /\ ~get_blocking_info(At(position_list, ply_idx), F_FILE_IDX, color)[1]

\* the block classification of a pawn that "never moved"
block_fate(position_list, color) ==
    LET blocked_plies == blocked_plies_of(position_list, color)
    IN  IF blocked_plies = {}
        THEN "never_blocked"
        ELSE IF is_pawn_freed(position_list, color, SetMin(blocked_plies))
             THEN "temporary_block"
             ELSE "permanent_block"

\* the tracker returning early, uncounted, for an unrecognised move
track_f_pawn_fate_dropping(position_list, color) ==
    LET pawn_present_plies == pawn_present_plies_of(position_list, color)
        move_plies == pawn_move_plies(position_list, color)
        pawn_moved == move_plies # {}
        pawn_movement_fate ==
            IF pawn_moved
            THEN _determine_pawn_movement(At(position_list, SetMin(move_plies)),
                                          At(position_list, SetMin(move_plies) + 1),
                                          F_FILE_IDX, color)
            ELSE NoFate
    IN  IF pawn_present_plies = {}
        THEN ZeroFates
        ELSE IF pawn_moved
             THEN IF pawn_movement_fate # NoFate
                  THEN [ZeroFates EXCEPT ![pawn_movement_fate] = @ + 1]
                  ELSE ZeroFates
             ELSE [ZeroFates EXCEPT ![block_fate(position_list, color)] = @ + 1]

\* the tracker going on to the block fates for a pawn that was never there
track_f_pawn_fate_absent_unblocked(position_list, color) ==
    LET move_plies == pawn_move_plies(position_list, color)
        pawn_moved == move_plies # {}
        pawn_movement_fate ==
            IF pawn_moved
            THEN _determine_pawn_movement(At(position_list, SetMin(move_plies)),
                                          At(position_list, SetMin(move_plies) + 1),
                                          F_FILE_IDX, color)
            ELSE NoFate
    IN  IF pawn_moved /\ pawn_movement_fate # NoFate
        THEN [ZeroFates EXCEPT ![pawn_movement_fate] = @ + 1]
        ELSE [ZeroFates EXCEPT ![block_fate(position_list, color)] = @ + 1]

\* the tracker reporting the block fate of a pawn that was blocked before
\* it moved
track_f_pawn_fate_block_first(position_list, color) ==
    LET pawn_present_plies == pawn_present_plies_of(position_list, color)
        move_plies == pawn_move_plies(position_list, color)
        pawn_moved == move_plies # {}
        pawn_movement_fate ==
            IF pawn_moved
            THEN _determine_pawn_movement(At(position_list, SetMin(move_plies)),
                                          At(position_list, SetMin(move_plies) + 1),
                                          F_FILE_IDX, color)
            ELSE NoFate
    IN  IF pawn_present_plies = {}
        THEN ZeroFates
        ELSE IF pawn_moved /\ pawn_movement_fate # NoFate
                    /\ blocked_plies_of(position_list, color) = {}
             THEN [ZeroFates EXCEPT ![pawn_movement_fate] = @ + 1]
             ELSE [ZeroFates EXCEPT ![block_fate(position_list, color)] = @ + 1]

\* the `fates` dictionary kept from one call to the next instead of being
\* created in the call
track_f_pawn_fate_accumulating(position_list, color) ==
    LET pawn_present_plies == pawn_present_plies_of(position_list, color)
        move_plies == pawn_move_plies(position_list, color)
        pawn_moved == move_plies # {}
        pawn_movement_fate ==
            IF pawn_moved
            THEN _determine_pawn_movement(At(position_list, SetMin(move_plies)),
                                          At(position_list, SetMin(move_plies) + 1),
                                          F_FILE_IDX, color)
            ELSE NoFate
    IN  IF pawn_present_plies = {}
        THEN fates[color]
        ELSE IF pawn_moved /\ pawn_movement_fate # NoFate
             THEN [fates[color] EXCEPT ![pawn_movement_fate] = @ + 1]
             ELSE [fates[color] EXCEPT ![block_fate(position_list, color)] = @ + 1]

track_f_pawn_fate(position_list, color) ==
    LET pawn_present_plies == pawn_present_plies_of(position_list, color)
        move_plies == pawn_move_plies(position_list, color)
        pawn_moved == move_plies # {}
        pawn_movement_fate ==
            IF pawn_moved
            THEN _determine_pawn_movement(At(position_list, SetMin(move_plies)),
                                          At(position_list, SetMin(move_plies) + 1),
                                          F_FILE_IDX, color)
            ELSE NoFate
    IN  IF pawn_present_plies = {}
        THEN ZeroFates
        ELSE IF pawn_moved /\ pawn_movement_fate # NoFate
             THEN [ZeroFates EXCEPT ![pawn_movement_fate] = @ + 1]
             ELSE [ZeroFates EXCEPT ![block_fate(position_list, color)] = @ + 1]

----------------------------------------------------------------------------
(* The games replayed: initial layouts (chess.Board() or the FEN header)   *)
(* and the legal pawn and knight moves board.push() is given.              *)

BackRank == <<ROOK, KNIGHT, BISHOP, QUEEN, KING, BISHOP, KNIGHT, ROOK>>

\* chess.Board(): the standard layout, White to move
StandardMap ==
    [sq \in SQUARES |->
        CASE square_rank(sq) = 0 -> Piece(BackRank[square_file(sq) + 1], WHITE)
          [] square_rank(sq) = 1 -> Piece(PAWN, WHITE)
          [] square_rank(sq) = 6 -> Piece(PAWN, BLACK)
          [] square_rank(sq) = 7 -> Piece(BackRank[square_file(sq) + 1], BLACK)
          [] OTHER -> None]

\* the square and the piece seen from the other side of the board
mirror_square(sq) == square(square_file(sq), 7 - square_rank(sq))
mirror_piece(piece) == IF piece = None THEN None ELSE Piece(piece_type(piece), ~piece_color(piece))

\* the standard layout with the edits applied for White and, mirrored, for Black
Edited(edits) ==
    [sq \in SQUARES |->
        IF \E e \in edits : e[1] = sq
        THEN (CHOOSE e \in edits : e[1] = sq)[2]
        ELSE IF \E e \in edits : mirror_square(e[1]) = sq
             THEN mirror_piece((CHOOSE e \in edits : mirror_square(e[1]) = sq)[2])
             ELSE StandardMap[sq]]

\* layouts supplied through the SetUp/FEN headers
FenLayouts ==
    { \* no f-pawns
      Edited({<<F2, None>>}),
      \* an enemy knight in reach of f2, e3/g3 and of its own f6/f3
      Edited({<<square(4, 3), Piece(KNIGHT, BLACK)>>, <<square(6, 7), None>>}),
      Edited({<<square(6, 3), Piece(KNIGHT, BLACK)>>, <<square(6, 7), None>>}),
      \* the knight already developed in front of the f-pawn
      Edited({<<F3, Piece(KNIGHT, WHITE)>>, <<square(6, 0), None>>}),
      \* doubled f-pawns after exf4, an enemy knight in reach
      Edited({<<F4, Piece(PAWN, WHITE)>>, <<square(4, 1), None>>,
              <<square(4, 3), Piece(KNIGHT, BLACK)>>, <<square(6, 7), None>>}),
      \* doubled pawns after gxf3 and dxe3, an enemy knight in reach
      Edited({<<F3, Piece(PAWN, WHITE)>>, <<square(6, 1), None>>,
              <<square(4, 3), Piece(KNIGHT, BLACK)>>, <<square(6, 7), None>>}),
      Edited({<<E3, Piece(PAWN, WHITE)>>, <<square(3, 1), None>>,
              <<square(4, 3), Piece(KNIGHT, BLACK)>>, <<square(6, 7), None>>}),
      \* five home pawns: the f-pawn behind its own knight, the g- and h-pawns
      \* behind enemy bishops
      Edited({<<square(0, 1), None>>, <<square(1, 1), None>>, <<square(2, 1), None>>,
              <<F3, Piece(KNIGHT, WHITE)>>, <<square(6, 0), None>>,
              <<G3, Piece(BISHOP, BLACK)>>, <<square(7, 2), Piece(BISHOP, BLACK)>>,
              <<square(2, 7), None>>, <<square(5, 7), None>>}) }

\* the layouts also supplied with Black to move (each layout is its own
\* mirror image, so the other side to move adds mirror images of the games)
BlackToMoveLayouts ==
    { Edited({<<F2, None>>}),
      Edited({<<F3, Piece(KNIGHT, WHITE)>>, <<square(6, 0), None>>}) }

\* the squares the two classifiers read
FocusSquares == {F2, F3, F4, E3, G3, F7, F6, F5, E6, G6}

forward(color) == IF color = WHITE THEN 1 ELSE 0 - 1

on_board(file_idx, rank_idx) == file_idx \in 0..7 /\ rank_idx \in 0..7

is_empty(piece_map, sq) == piece_map[sq] = None

is_enemy(piece_map, sq, color) ==
    piece_map[sq] # None /\ piece_color(piece_map[sq]) # color
        /\ piece_type(piece_map[sq]) # KING

pawn_targets(piece_map, from, color) ==
    LET f == square_file(from)
        r == square_rank(from)
        d == forward(color)
        one == square(f, r + d)
        two == square(f, r + 2 * d)
    IN  IF ~(r + d \in 1..6)
        THEN {}
        ELSE (IF is_empty(piece_map, one) THEN {one} ELSE {})
             \cup (IF r = (IF color = WHITE THEN 1 ELSE 6)
                        /\ is_empty(piece_map, one) /\ is_empty(piece_map, two)
                   THEN {two} ELSE {})
             \cup {square(g, r + d) : g \in {h \in {f - 1, f + 1} :
                        on_board(h, r + d) /\ is_enemy(piece_map, square(h, r + d), color)}}

KnightJumps == {<<1, 2>>, <<2, 1>>, <<2, 0 - 1>>, <<1, 0 - 2>>,
                <<0 - 1, 0 - 2>>, <<0 - 2, 0 - 1>>, <<0 - 2, 1>>, <<0 - 1, 2>>}

knight_squares(from) ==
    {square(square_file(from) + j[1], square_rank(from) + j[2]) :
        j \in {k \in KnightJumps :
                on_board(square_file(from) + k[1], square_rank(from) + k[2])}}

knight_targets(piece_map, from, color) ==
    {to \in knight_squares(from) : is_empty(piece_map, to) \/ is_enemy(piece_map, to, color)}

\* board.push(move) for a plain move or capture
push(position, from, to) ==
    [piece_map |-> [position.piece_map EXCEPT ![to] = position.piece_map[from],
                                              ![from] = None],
     turn |-> ~position.turn]

\* the king of `color` is attacked by a knight or a pawn
in_check(piece_map, color) ==
    \E k \in SQUARES :
        /\ piece_map[k] = Piece(KING, color)
        /\ \/ \E n \in knight_squares(k) : piece_map[n] = Piece(KNIGHT, ~color)
           \/ \E g \in {square_file(k) - 1, square_file(k) + 1} :
                /\ on_board(g, square_rank(k) + forward(color))
                /\ piece_map[square(g, square_rank(k) + forward(color))] = Piece(PAWN, ~color)

\* the moves a game may continue with: the legal moves of knights onto a
\* square the classifiers read, of f-pawns, of pawns capturing onto such a
\* square or leaving one, of a knight from such a square (to the squares not
\* read, one move), and the a-pawn's single step as a waiting move
legal_moves(position) ==
    LET pm == position.piece_map
        c == position.turn
        targets(from) ==
            IF pm[from] = Piece(PAWN, c) THEN pawn_targets(pm, from, c)
            ELSE IF pm[from] = Piece(KNIGHT, c) THEN knight_targets(pm, from, c)
            ELSE {}
        candidates ==
            UNION {{<<from, to>> : to \in targets(from)} : from \in SQUARES}
    IN  {m \in candidates :
            /\ \/ m[2] \in FocusSquares /\ pm[m[1]] = Piece(KNIGHT, c)
               \/ m[2] \in FocusSquares /\ pm[m[1]] = Piece(PAWN, c)
                    /\ (square_file(m[1]) = F_FILE_IDX \/ pm[m[2]] # None)
               \/ m[1] \in FocusSquares /\ pm[m[1]] = Piece(PAWN, c)
               \/ m[1] \in FocusSquares /\ pm[m[1]] = Piece(KNIGHT, c)
                    /\ m[2] = SetMin(targets(m[1]) \ FocusSquares)
               \/ square_file(m[1]) = 0 /\ square_file(m[2]) = 0
                    /\ m[2] = m[1] + 8 * forward(c)
            /\ ~in_check(push(position, m[1], m[2]).piece_map, c)}

----------------------------------------------------------------------------
(* modules/core/metrics.py: calculate_spbts_for_game *)

color_str(color) == IF color = WHITE THEN "white" ELSE "black"

\* chess.piece_symbol
PIECE_SYMBOLS == <<"p", "n", "b", "r", "q", "k">>

\* blocker_piece of a row without a blocker (Python None)
NoSymbol == "None"

\* int(flag)
bool_int(flag) == IF flag THEN 1 ELSE 0

\* blocker_piece of a row
blocker_symbol(blocker_type) ==
    IF blocker_type = NoPieceType THEN NoSymbol ELSE PIECE_SYMBOLS[blocker_type]

\* the row with any_block written to the friendly_np_block column
exposed_row_any_as_friendly(ply_idx, color, file_idx, info) ==
    [ply_index |-> ply_idx,
     color |-> color_str(color),
     file |-> FILES[file_idx + 1],
     exposed |-> 1,
     friendly_np_block |-> bool_int(info[3]),
     enemy_block |-> bool_int(info[2]),
     any_block |-> bool_int(info[3]),
     blocker_piece |-> blocker_symbol(info[4])]

\* the row appended for an exposed pawn
exposed_row(ply_idx, color, file_idx, info) ==
    [ply_index |-> ply_idx,
     color |-> color_str(color),
     file |-> FILES[file_idx + 1],
     exposed |-> 1,
     friendly_np_block |-> bool_int(info[1]),
     enemy_block |-> bool_int(info[2]),
     any_block |-> bool_int(info[3]),
     blocker_piece |-> blocker_symbol(info[4])]

\* the row appended otherwise
unexposed_row(ply_idx, color, file_idx) ==
    [ply_index |-> ply_idx,
     color |-> color_str(color),
     file |-> FILES[file_idx + 1],
     exposed |-> 0,
     friendly_np_block |-> 0,
     enemy_block |-> 0,
     any_block |-> 0,
     blocker_piece |-> NoSymbol]

\* the (ply_idx, color, file_idx) of the k-th iteration of the loops over
\* positions, (WHITE, BLACK) and range(8), k counted from 1
cell_ply(k) == (k - 1) \div 16
cell_color_white_twice(k) == WHITE
cell_color(k) == IF (k - 1) % 16 < 8 THEN WHITE ELSE BLACK
cell_file(k) == (k - 1) % 8

\* what each iteration reads of its position: whether the pawn is exposed
\* and, when it is, what get_blocking_info returns
cell_reads(position_list) ==
    [k \in 1..(16 * Len(position_list)) |->
        IF is_pawn_exposed(At(position_list, cell_ply(k)), cell_file(k), cell_color(k))
        THEN <<TRUE, get_blocking_info(At(position_list, cell_ply(k)),
                                       cell_file(k), cell_color(k))>>
        ELSE <<FALSE, None>>]

\* trace_rows after the loops
trace_rows(reads) ==
    [k \in DOMAIN reads |->
        IF reads[k][1]
        THEN exposed_row(cell_ply(k), cell_color(k), cell_file(k), reads[k][2])
        ELSE unexposed_row(cell_ply(k), cell_color(k), cell_file(k))]

\* the iteration that handles (ply_idx, color, file_idx)
cell_index(ply_idx, color, file_idx) ==
    16 * ply_idx + (IF color = WHITE THEN 0 ELSE 8) + file_idx + 1

\* the iterations of one colour
color_cells(reads, color) ==
    {cell_index(ply_idx, color, file_idx) :
        ply_idx \in 0..((Len(reads) \div 16) - 1), file_idx \in 0..7}

\* the iterations of one colour and file
file_cells(reads, color, file_idx) ==
    {cell_index(ply_idx, color, file_idx) : ply_idx \in 0..((Len(reads) \div 16) - 1)}

\* aggregates[color]["exposure"] after the loops
exposure_count(reads, color) ==
    Cardinality({k \in color_cells(reads, color) : reads[k][1]})

\* the enemy counter incremented under `if any_block`
aggregate_count_enemy_on_any(reads, color, info_idx) ==
    Cardinality({k \in color_cells(reads, color) :
        reads[k][1] /\ reads[k][2][IF info_idx = 2 THEN 3 ELSE info_idx]})

\* aggregates[color][key] after the loops, info_idx selecting the flag of key
aggregate_count(reads, color, info_idx) ==
    Cardinality({k \in color_cells(reads, color) : reads[k][1] /\ reads[k][2][info_idx]})

\* per_file_exposure[color][i] after the loops
per_file_exposure(reads, color, i) ==
    Cardinality({k \in file_cells(reads, color, i) : reads[k][1]})

\* per_file_friendly_blocks[color][i] after the loops
per_file_friendly_blocks(reads, color, i) ==
    Cardinality({k \in file_cells(reads, color, i) : reads[k][1] /\ reads[k][2][1]})

\* the quotient count / denominator, kept exact as <<count, denominator>>
Rate(count, denominator) == <<count, denominator>>

\* The value of `count / denominator` is a Python float: the IEEE 754 double
\* nearest to the quotient (ties to even). A positive double is kept as
\* [exp, bits], the 53 significant binary digits `bits` (bits[1] = 1) read as
\* 1.b2...b53 times 2^exp; 0.0 is FloatZero.
MantissaBits == 53

FloatZero == [exp |-> 0, bits |-> <<>>]

RECURSIVE quotient_digits(_, _, _)
\* the next `count` binary digits of r / d, for 0 <= r < d
quotient_digits(r, d, count) ==
    IF count = 0
    THEN <<>>
    ELSE LET digit == IF 2 * r >= d THEN 1 ELSE 0
         IN  <<digit>> \o quotient_digits(2 * r - digit * d, d, count - 1)

RECURSIVE quotient_rest(_, _, _)
\* what is left of r / d after `count` binary digits
quotient_rest(r, d, count) ==
    IF count = 0 THEN r ELSE quotient_rest((2 * r) % d, d, count - 1)

RECURSIVE leading_shift(_, _)
\* the least k with n * 2^k >= d, for 1 <= n <= d
leading_shift(n, d) == IF n >= d THEN 0 ELSE 1 + leading_shift(2 * n, d)

\* the digits plus one in the last place, a carry out of the first place
\* being a new first digit
increment(digits) ==
    LET zero_places == {i \in 1..Len(digits) : digits[i] = 0}
        last_zero == CHOOSE i \in zero_places : \A j \in zero_places : j <= i
    IN  IF zero_places = {}
        THEN <<1>> \o [i \in 1..Len(digits) |-> 0]
        ELSE [i \in 1..Len(digits) |->
                IF i < last_zero THEN digits[i] ELSE IF i = last_zero THEN 1 ELSE 0]

\* the double nearest to the number 1.d2 d3 ... times 2^exp whose digits are
\* `digits` (at least MantissaBits of them) followed by a nonzero tail iff
\* `sticky`: round to nearest, ties to even
round_to_double(exp, digits, sticky) ==
    LET kept == SubSeq(digits, 1, MantissaBits)
        dropped == SubSeq(digits, MantissaBits + 1, Len(digits))
        guard == dropped # <<>> /\ dropped[1] = 1
        tail == sticky \/ \E i \in 2..Len(dropped) : dropped[i] = 1
        up == guard /\ (tail \/ kept[MantissaBits] = 1)
        raised == increment(kept)
    IN  IF ~up
        THEN [exp |-> exp, bits |-> kept]
        ELSE IF Len(raised) > MantissaBits
             THEN [exp |-> exp + 1, bits |-> SubSeq(raised, 1, MantissaBits)]
             ELSE [exp |-> exp, bits |-> raised]

\* count / denominator for ints 0 <= count <= denominator, 0 < denominator
float_div(count, denominator) ==
    IF count = 0
    THEN FloatZero
    ELSE LET shift == leading_shift(count, denominator)
             first == count * (2 ^ shift) - denominator
         IN  round_to_double(
                 0 - shift,
                 <<1>> \o quotient_digits(first, denominator, MantissaBits),
                 quotient_rest(first, denominator, MantissaBits) # 0)

\* the per-file rate reported as 0 for a file without exposure
per_file_rate_zero(file_exposure, file_friendly_blocks) ==
    IF file_exposure > 0 THEN Rate(file_friendly_blocks, file_exposure) ELSE Rate(0, 1)

\* per_file_rates[FILES[i]]
per_file_rate(file_exposure, file_friendly_blocks) ==
    IF file_exposure > 0 THEN Rate(file_friendly_blocks, file_exposure) ELSE None

per_file_rates(reads, color) ==
    [letter \in {FILES[i + 1] : i \in 0..7} |->
        per_file_rate(per_file_exposure(reads, color, get_file_index(letter)),
                      per_file_friendly_blocks(reads, color, get_file_index(letter)))]

\* the dictionary summarize_side returns, exposure being
\* aggregates[color]["exposure"]
side_summary(exposure, reads, f_pawn_fates, color) ==
    IF exposure = 0
    THEN [exposure |-> 0,
          SPBTS_friendlyNP |-> None,
          SPBTS_enemy |-> None,
          SPBTS_any |-> None,
          per_file_friendlyNP |-> None,
          f_pawn_fates |-> None]
    ELSE [exposure |-> exposure,
          SPBTS_friendlyNP |-> Rate(aggregate_count(reads, color, 1), exposure),
          SPBTS_enemy |-> Rate(aggregate_count(reads, color, 2), exposure),
          SPBTS_any |-> Rate(aggregate_count(reads, color, 3), exposure),
          per_file_friendlyNP |-> per_file_rates(reads, color),
          f_pawn_fates |-> f_pawn_fates]

\* summarize_side(color); f_pawn_fates is track_f_pawn_fate(positions, color)
summarize_side(reads, f_pawn_fates, color) ==
    side_summary(exposure_count(reads, color), reads, f_pawn_fates, color)

\* the summary returned: {"white": ..., "black": ...}
summary_of(reads, side_fates) ==
    [side \in {"white", "black"} |->
        summarize_side(reads, side_fates[side = "white"], side = "white")]

----------------------------------------------------------------------------
(* The replay loop and the analyses run on its positions *)

\* the longest mainline of a game
MaxMoves == MaxPlies - 1

\* chess.Board(): the standard layout, White to move
StandardBoard == [piece_map |-> StandardMap, turn |-> WHITE]

\* the standard layout without White's pawns
NoWhitePawnsMap ==
    [sq \in SQUARES |-> IF square_rank(sq) = 1 THEN None ELSE StandardMap[sq]]

\* the boards a FEN header may describe
FenBoards ==
    {[piece_map |-> layout, turn |-> WHITE] :
        layout \in FenLayouts \cup {StandardMap, NoWhitePawnsMap}}
    \cup {[piece_map |-> layout, turn |-> BLACK] : layout \in BlackToMoveLayouts}

\* game.headers: no SetUp/FEN pair, a SetUp "1" with a FEN, a SetUp "1"
\* without FEN, or a FEN without SetUp "1"
HeaderChoices ==
    {[SetUp |-> "none", FEN |-> None], [SetUp |-> "1", FEN |-> None]}
        \cup {[SetUp |-> "1", FEN |-> fen] : fen \in FenBoards}
        \cup {[SetUp |-> "0", FEN |-> [piece_map |-> NoWhitePawnsMap, turn |-> WHITE]]}

\* the board the replay starts from
initial_board(game_headers) ==
    IF game_headers.SetUp = "1" /\ game_headers.FEN # None
    THEN game_headers.FEN
    ELSE StandardBoard

Pending == [c \in COLORS |-> "pending"]

\* no batch is running
NoBatch ==
    /\ pgn_games = <<>>
    /\ game_filter = None
    /\ min_exposure = 0
    /\ results = <<>>
    /\ game_index = 0

\* the summary before calculate_spbts_for_game has returned
NoSummary == [side \in {"white", "black"} |-> None]

Init ==
    /\ headers \in HeaderChoices
    /\ board = initial_board(headers)
    /\ max_plies \in 0..MaxPlies
    /\ moves_played \in 0..MaxMoves
    /\ positions = <<>>
    /\ moves = <<>>
    /\ pc = "setup"
    /\ buckets = Pending
    /\ fates = [c \in COLORS |-> ZeroFates]
    /\ trace = <<>>
    /\ summary = NoSummary
    /\ NoBatch

\* positions = [board.copy()]
Setup ==
    /\ pc = "setup"
    /\ positions' = <<board>>
    /\ pc' = "replay"
    /\ UNCHANGED <<headers, board, moves, moves_played, max_plies, buckets, fates,
                   trace, summary>>
    /\ UNCHANGED batch_vars

\* the loop breaking one iteration later
loop_breaks_late(i, cap) == i >= cap

\* if i >= max_plies - 1: break
loop_breaks(i, cap) == i >= cap - 1

\* positions.append(board): every retained entry is the working board itself
retain_alias(position_list, working_board) ==
    [i \in 1..(Len(position_list) + 1) |-> working_board]

\* positions.append(board.copy())
retain(position_list, working_board) == Append(position_list, working_board)

\* one iteration of `for i, move in enumerate(moves)`
ReplayMove ==
    /\ pc = "replay"
    /\ Len(moves) < moves_played
    /\ ~loop_breaks(Len(moves), max_plies)
    /\ \E m \in legal_moves(board) :
        /\ board' = push(board, m[1], m[2])
        /\ positions' = retain(positions, push(board, m[1], m[2]))
        /\ moves' = Append(moves, m)
    /\ UNCHANGED <<headers, moves_played, max_plies, pc, buckets, fates, trace, summary>>
    /\ UNCHANGED batch_vars

\* the replay loop has run out of moves or has hit the cap
LoopEnded == Len(moves) = moves_played \/ loop_breaks(Len(moves), max_plies)

\* after the loop: the classifiers, the trace and the summary of the game
Analyze ==
    /\ pc = "replay"
    /\ LoopEnded
    /\ buckets' = [c \in COLORS |-> classify_f_bucket_for_color(positions, c, max_plies)]
    /\ fates' = [c \in COLORS |-> track_f_pawn_fate(positions, c)]
    /\ \E reads \in {cell_reads(positions)} :
            /\ trace' = trace_rows(reads)
            /\ summary' = summary_of(reads, fates')
    /\ pc' = "done"
    /\ UNCHANGED <<headers, board, positions, moves, moves_played, max_plies>>
    /\ UNCHANGED batch_vars

\* the two classifiers called on an empty list of positions
ClassifyEmpty ==
    /\ pc = "setup"
    /\ buckets' = [c \in COLORS |-> classify_f_bucket_for_color(positions, c, max_plies)]
    /\ fates' = [c \in COLORS |-> track_f_pawn_fate(positions, c)]
    /\ pc' = "done"
    /\ UNCHANGED <<headers, board, positions, moves, moves_played, max_plies,
                   trace, summary>>
    /\ UNCHANGED batch_vars

\* calculate_spbts_for_game as a function of the game (its headers, the moves
\* of its mainline read so far and the number of moves it has) and max_plies

\* moves[i]: the move read before, or some further move of the game
next_move(working_board, mainline, i) ==
    IF i < Len(mainline)
    THEN At(mainline, i)
    ELSE CHOOSE m \in legal_moves(working_board) : TRUE

RECURSIVE replay_from(_, _, _, _, _, _)
\* the iterations of `for i, move in enumerate(moves)` from the i-th on
replay_from(working_board, position_list, mainline, length, i, cap) ==
    IF i >= length \/ loop_breaks(i, cap)
    THEN position_list
    ELSE LET move == next_move(working_board, mainline, i)
             after == push(working_board, move[1], move[2])
         IN  replay_from(after, retain(position_list, after), mainline, length, i + 1, cap)

\* the positions list calculate_spbts_for_game builds
retained_positions(game_headers, mainline, length, cap) ==
    replay_from(initial_board(game_headers), <<initial_board(game_headers)>>,
                mainline, length, 0, cap)

\* (summary, trace_df)
calculate_spbts_for_game(game_headers, mainline, length, cap) ==
    LET position_list == retained_positions(game_headers, mainline, length, cap)
        reads == cell_reads(position_list)
    IN  <<summary_of(reads, [c \in COLORS |-> track_f_pawn_fate(position_list, c)]),
          trace_rows(reads)>>

\* modules/core/classification.py, classify_f_buckets_from_pgn: its own
\* replay of the game. The game is known by its headers, the moves of its
\* mainline read so far (`mainline`) and the number of moves it has (`length`).

\* the board the replay starts from
pgn_initial_board(game_headers) ==
    IF game_headers.SetUp = "1" /\ game_headers.FEN # None
    THEN game_headers.FEN
    ELSE StandardBoard

\* the loop breaking one iteration later
pgn_loop_breaks_late(i, cap) == i >= cap

\* if i >= max_plies - 1: break
pgn_loop_breaks(i, cap) == i >= cap - 1

\* moves[i]: the move read before, or some further move of the game
mainline_move(working_board, mainline, i) ==
    IF i < Len(mainline)
    THEN At(mainline, i)
    ELSE CHOOSE m \in legal_moves(working_board) : TRUE

RECURSIVE pgn_replay(_, _, _, _, _, _)
\* the iterations of `for i, move in enumerate(moves)` from the i-th on
pgn_replay(working_board, position_list, mainline, length, i, cap) ==
    IF i >= length \/ pgn_loop_breaks(i, cap)
    THEN position_list
    ELSE LET move == mainline_move(working_board, mainline, i)
             after == push(working_board, move[1], move[2])
         IN  pgn_replay(after, Append(position_list, after), mainline, length, i + 1, cap)

\* the positions list classify_f_buckets_from_pgn builds
pgn_positions(game_headers, mainline, length, cap) ==
    pgn_replay(pgn_initial_board(game_headers), <<pgn_initial_board(game_headers)>>,
               mainline, length, 0, cap)

\* the dictionary classify_f_buckets_from_pgn returns
classify_f_buckets_from_pgn(game_headers, mainline, length, cap) ==
    [side \in {"white", "black"} |->
        classify_f_bucket_for_color(pgn_positions(game_headers, mainline, length, cap),
                                    side = "white", cap)]

Next == Setup \/ ReplayMove \/ Analyze \/ ClassifyEmpty

Spec == Init /\ [][Next]_vars

----------------------------------------------------------------------------
(* The two classifiers called directly: any list of positions, any         *)
(* max_plies, whether or not a replay could have produced the list.        *)

\* what the f-file can look like, for White and mirrored for Black: the pawn
\* at home and free, behind its own knight, behind an enemy knight, pushed to
\* f3 or to f4, gone
ClassifierLayouts ==
    { StandardMap,
      Edited({<<F3, Piece(KNIGHT, WHITE)>>, <<square(6, 0), None>>}),
      [StandardMap EXCEPT ![F3] = Piece(KNIGHT, BLACK), ![F6] = Piece(KNIGHT, WHITE),
                          ![square(6, 0)] = None, ![square(6, 7)] = None],
      Edited({<<F2, None>>, <<F3, Piece(PAWN, WHITE)>>}),
      Edited({<<F2, None>>, <<F4, Piece(PAWN, WHITE)>>}),
      Edited({<<F2, None>>}) }

ClassifierBoards == {[piece_map |-> layout, turn |-> WHITE] : layout \in ClassifierLayouts}

\* the lists of at most MaxPlies positions
PositionLists == UNION {[1..n -> ClassifierBoards] : n \in 0..MaxPlies}

ClassifyInit ==
    /\ positions \in PositionLists
    /\ max_plies \in 0..MaxPlies
    /\ pc = "call"
    /\ headers = [SetUp |-> "none", FEN |-> None]
    /\ board = StandardBoard
    /\ moves = <<>>
    /\ moves_played = 0
    /\ buckets = Pending
    /\ fates = [c \in COLORS |-> ZeroFates]
    /\ trace = <<>>
    /\ summary = NoSummary
    /\ NoBatch

\* classify_f_bucket_for_color(positions, color, max_plies) and
\* track_f_pawn_fate(positions, color) for both colours
Classify ==
    /\ pc = "call"
    /\ buckets' = [c \in COLORS |-> classify_f_bucket_for_color(positions, c, max_plies)]
    /\ fates' = [c \in COLORS |-> track_f_pawn_fate(positions, c)]
    /\ pc' = "done"
    /\ UNCHANGED <<headers, board, positions, moves, moves_played, max_plies,
                   trace, summary>>
    /\ UNCHANGED batch_vars

ClassifyNext == Classify

ClassifySpec == ClassifyInit /\ [][ClassifyNext]_vars

----------------------------------------------------------------------------
(* modules/analysis/comparisons.py: analyze_game_collection *)

NoHeaders == [SetUp |-> "none", FEN |-> None]

\* the PGN strings of a batch, each known by what the parsers make of it:
\* whether chess.pgn.read_game finds a game, the Variant header in lower
\* case, the SetUp/FEN headers and the mainline
BatchGames ==
    { \* a game without moves
      [parses |-> TRUE, variant |-> "standard", headers |-> NoHeaders, mainline |-> <<>>],
      \* 1. f3
      [parses |-> TRUE, variant |-> "standard", headers |-> NoHeaders,
       mainline |-> <<<<F2, F3>>>>],
      \* a position without white pawns
      [parses |-> TRUE, variant |-> "standard",
       headers |-> [SetUp |-> "1", FEN |-> [piece_map |-> NoWhitePawnsMap, turn |-> WHITE]],
       mainline |-> <<>>],
      \* a string without a game
      [parses |-> FALSE, variant |-> "standard", headers |-> NoHeaders, mainline |-> <<>>],
      \* a game of another variant
      [parses |-> TRUE, variant |-> "chess960", headers |-> NoHeaders, mainline |-> <<>>] }

\* the batches: game i carries the game id i (the end of its Site header)
BatchLists ==
    UNION {{[i \in 1..n |-> [game_id |-> i, pgn |-> choice[i]]] :
                choice \in [1..n -> BatchGames]} : n \in 0..MaxGames}

\* game_filter: None, or a GameFilter with one variant filter
GameFilters == {None, [variant |-> "standard"]}

\* min_exposure
MinExposures == {0, 1, 9}

\* GameFilter.passes
passes(filter, game) == game.pgn.variant = filter.variant

Continue == [kind |-> "continue"]

\* the body of the try block for one PGN string: what it ends with (a
\* `continue`, an exception raised, or the record appended to results)
analyze_one(game, filter, cap, threshold) ==
    IF filter # None /\ ~passes(filter, game)
    THEN Continue
    ELSE IF ~game.pgn.parses
    THEN [kind |-> "raise", error |-> "ValueError"]
    ELSE LET returned == calculate_spbts_for_game(game.pgn.headers, game.pgn.mainline,
                                                  Len(game.pgn.mainline), cap)
             summary_by_side == returned[1]
             trace_df == returned[2]
             white_exp == summary_by_side["white"].exposure
             black_exp == summary_by_side["black"].exposure
             white_per_file == summary_by_side["white"].per_file_friendlyNP
             black_per_file == summary_by_side["black"].per_file_friendlyNP
         IN  IF white_exp < threshold \/ black_exp < threshold
             THEN Continue
             ELSE IF white_per_file = None \/ black_per_file = None
             THEN [kind |-> "raise", error |-> "AttributeError"]
             ELSE [kind |-> "append",
                   row |-> [game_id |-> game.game_id,
                            white_spbts |-> summary_by_side["white"].SPBTS_friendlyNP,
                            black_spbts |-> summary_by_side["black"].SPBTS_friendlyNP,
                            white_exposure |-> white_exp,
                            black_exposure |-> black_exp,
                            plies_analyzed |-> trace_df[Len(trace_df)].ply_index,
                            white_f |-> white_per_file["f"],
                            black_f |-> black_per_file["f"]]]

\* except Exception: continue
caught(outcome) == IF outcome.kind = "raise" THEN Continue ELSE outcome

BatchInit ==
    /\ pgn_games \in BatchLists
    /\ game_filter \in GameFilters
    /\ min_exposure \in MinExposures
    /\ max_plies \in 0..MaxPlies
    /\ results = <<>>
    /\ game_index = 0
    /\ pc = "batch"
    /\ headers = NoHeaders
    /\ board = StandardBoard
    /\ positions = <<>>
    /\ moves = <<>>
    /\ moves_played = 0
    /\ buckets = Pending
    /\ fates = [c \in COLORS |-> ZeroFates]
    /\ trace = <<>>
    /\ summary = NoSummary

\* one iteration of `for pgn in pgn_games`; an exception that is not caught
\* ends the call
AnalyzeGame ==
    /\ pc = "batch"
    /\ game_index < Len(pgn_games)
    /\ \E outcome \in {caught(analyze_one(At(pgn_games, game_index), game_filter,
                                         max_plies, min_exposure))} :
        /\ results' = IF outcome.kind = "append"
                      THEN Append(results, outcome.row)
                      ELSE results
        /\ game_index' = IF outcome.kind = "raise" THEN game_index ELSE game_index + 1
        /\ pc' = IF outcome.kind = "raise" THEN "aborted" ELSE pc
    /\ UNCHANGED <<pgn_games, game_filter, min_exposure, max_plies>>
    /\ UNCHANGED game_vars

\* return pd.DataFrame(results)
ReturnResults ==
    /\ pc = "batch"
    /\ game_index = Len(pgn_games)
    /\ pc' = "returned"
    /\ UNCHANGED <<pgn_games, game_filter, min_exposure, max_plies, results, game_index>>
    /\ UNCHANGED game_vars

BatchNext == AnalyzeGame \/ ReturnResults

BatchSpec == BatchInit /\ [][BatchNext]_vars

TypeOK ==
    /\ pc \in {"setup", "replay", "done", "call", "batch", "returned"}
    /\ Len(positions) <= MaxPlies + 1
    /\ Len(moves) <= moves_played
    /\ \A c \in COLORS : buckets[c] \in {"pending", "A1", "A2", "A3", "B4", "B5", "other"}

----------------------------------------------------------------------------
(* Vocabulary of the properties: what happened in the game, read off the   *)
(* retained positions and the moves played, not off the classifiers.       *)

BUCKETS == {"A1", "A2", "A3", "B4", "B5", "other"}

Plies == 0..(Len(positions) - 1)

StartSq(c) == IF c = WHITE THEN F2 ELSE F7
AheadSq(c) == IF c = WHITE THEN F3 ELSE F6
TwoAheadSq(c) == IF c = WHITE THEN F4 ELSE F5
EFileSq(c) == IF c = WHITE THEN E3 ELSE E6
GFileSq(c) == IF c = WHITE THEN G3 ELSE G6

\* the f-pawn of c is on its start square at ply t
OnStart(t, c) == At(positions, t).piece_map[StartSq(c)] = Piece(PAWN, c)

\* a non-pawn of c stands in front of c's f-pawn, which is on its start square
Blocked(t, c) ==
    /\ OnStart(t, c)
    /\ \E k \in {KNIGHT, BISHOP, ROOK, QUEEN, KING} :
            At(positions, t).piece_map[AheadSq(c)] = Piece(k, c)

\* the pawn is on its start square at ply t - 1 and not at ply t
MoveOff(t, c) == t >= 1 /\ OnStart(t - 1, c) /\ ~OnStart(t, c)

HasMoveOff(c) == \E t \in Plies : MoveOff(t, c)

FirstMoveOff(c) == SetMin({t \in Plies : MoveOff(t, c)})

\* the move that produced the position of ply t (t >= 1)
MoveInto(t) == At(moves, t - 1)

BlockedBeforeMoveOff(c) ==
    \E t \in Plies : Blocked(t, c) /\ (HasMoveOff(c) => t < FirstMoveOff(c))

\* the pawn left the start square, and no friendly non-pawn blocked it before
FreeMoveOff(c) == HasMoveOff(c) /\ ~BlockedBeforeMoveOff(c)

Advanced(c, to) == MoveInto(FirstMoveOff(c)) = <<StartSq(c), to>>

FirstBlocked(c) == SetMin({t \in Plies : Blocked(t, c)})

\* the first ply after the first blocked one at which the pawn is gone or free
EpisodeEnd(c) ==
    LET ends == {t \in Plies : t > FirstBlocked(c) /\ (~OnStart(t, c) \/ ~Blocked(t, c))}
    IN  IF ends = {} THEN Len(positions) ELSE SetMin(ends)

EpisodeDuration(c) == EpisodeEnd(c) - FirstBlocked(c)

\* the position after the pawn's move shows a pawn of c on none of the four
\* recognised squares
Unrecognised(c) ==
    \A sq \in {AheadSq(c), TwoAheadSq(c), EFileSq(c), GFileSq(c)} :
        At(positions, FirstMoveOff(c)).piece_map[sq] # Piece(PAWN, c)

Counted(c) == {k \in FATE_KEYS : fates[c][k] = 1}

NoFateCounted(c) == \A k \in FATE_KEYS : fates[c][k] = 0

Done == pc = "done"

----------------------------------------------------------------------------
(* Properties *)

\* C1: the bucket classifier is total: for every list of positions, the empty
\* list included, and either colour it returns one of the six labels.
C1_BucketTotal == Done => \A c \in COLORS : buckets[c] \in BUCKETS

C1_Witness == Done /\ positions = <<>> /\ buckets[WHITE] = "A1" /\ buckets[BLACK] = "A1"

\* C2: the bucket is A1 exactly when the pawn never left its start square and
\* was friendly-blocked at no retained ply (also when it was never there).
C2_A1Exactly ==
    Done => \A c \in COLORS :
        buckets[c] = "A1" <=> (~HasMoveOff(c) /\ \A t \in Plies : ~Blocked(t, c))

C2_Witness ==
    /\ Done
    /\ Len(positions) >= 3
    /\ \E c \in COLORS : buckets[c] = "A1" /\ \A t \in Plies : ~OnStart(t, c)

\* C3: a pawn that leaves its start square by advancing, with no friendly
\* non-pawn block before, gives A2 for one square and A3 for two squares; a
\* piece that steps in front of the start square afterwards changes nothing.
C3_AdvanceBuckets ==
    Done => \A c \in COLORS :
        FreeMoveOff(c) =>
            /\ Advanced(c, AheadSq(c)) => buckets[c] = "A2"
            /\ Advanced(c, TwoAheadSq(c)) => buckets[c] = "A3"

C3_Witness ==
    /\ Done
    /\ \E c \in COLORS :
        /\ FreeMoveOff(c) /\ Advanced(c, TwoAheadSq(c)) /\ buckets[c] = "A3"
        /\ \E t \in Plies : t > FirstMoveOff(c)
                /\ At(positions, t).piece_map[AheadSq(c)] = Piece(KNIGHT, c)

\* C4: a pawn that leaves its start square without advancing straight ahead
\* (it captured, or was captured), with no friendly non-pawn block before,
\* gives other, whatever else is on the board.
C4_NotAdvancedIsOther ==
    Done => \A c \in COLORS :
        (FreeMoveOff(c) /\ ~Advanced(c, AheadSq(c)) /\ ~Advanced(c, TwoAheadSq(c)))
            => buckets[c] = "other"

\* C5: the bucket is B4 or B5 exactly when a friendly non-pawn blocked the
\* pawn on its start square before the pawn left (or at any ply if it never
\* left); such a trace is never A1, A2 or A3.
C5_BlockBuckets ==
    Done => \A c \in COLORS : buckets[c] \in {"B4", "B5"} <=> BlockedBeforeMoveOff(c)

C5_Witness ==
    /\ Done
    /\ \E c \in COLORS :
        /\ BlockedBeforeMoveOff(c) /\ HasMoveOff(c)
        /\ Advanced(c, AheadSq(c)) \/ Advanced(c, TwoAheadSq(c))
        /\ buckets[c] \in {"B4", "B5"}

\* C6: for a blocked trace the first episode runs from the first blocked ply
\* to the first later ply with the pawn gone or free (the end of the list if
\* there is none), lasts at least one ply, and gives B4 iff it lasts at most
\* two plies and B5 iff it lasts more.
C6_EpisodeDuration ==
    Done => \A c \in COLORS :
        BlockedBeforeMoveOff(c) =>
            /\ EpisodeDuration(c) >= 1
            /\ buckets[c] = "B4" <=> EpisodeDuration(c) <= 2
            /\ buckets[c] = "B5" <=> EpisodeDuration(c) > 2

C6_Witness ==
    /\ Done
    /\ \E c \in COLORS :
        /\ BlockedBeforeMoveOff(c)
        /\ EpisodeEnd(c) < Len(positions)
        /\ EpisodeDuration(c) = 3
        /\ buckets[c] = "B5"

C8_UnrecognisedUncounted ==
    Done => \A c \in COLORS : (HasMoveOff(c) /\ Unrecognised(c)) => NoFateCounted(c)

\* C9: the first ply at which the pawn has left its start square is the
\* pawn's move; it counts push_f3 for one square ahead, push_f4 for two,
\* capture_e3 and capture_g3 for the captures toward the e- and the g-file,
\* and a capture is never counted as a push.
C9_MoveFates ==
    Done => \A c \in COLORS :
        HasMoveOff(c) =>
            /\ Advanced(c, AheadSq(c)) => Counted(c) = {"push_f3"}
            /\ Advanced(c, TwoAheadSq(c)) => Counted(c) = {"push_f4"}
            /\ Advanced(c, EFileSq(c)) => Counted(c) = {"capture_e3"}
            /\ Advanced(c, GFileSq(c)) => Counted(c) = {"capture_g3"}

\* C10: for a pawn that stays on its start square through the window:
\* never_blocked iff blocked at no ply; otherwise temporary_block iff free at
\* some ply after the first blocked one, permanent_block iff blocked from the
\* first blocked ply to the end.
C10_StayFates ==
    Done => \A c \in COLORS :
        (positions # <<>> /\ \A t \in Plies : OnStart(t, c)) =>
            /\ fates[c]["never_blocked"] = 1 <=> \A t \in Plies : ~Blocked(t, c)
            /\ (\E t \in Plies : Blocked(t, c)) =>
                /\ fates[c]["temporary_block"] = 1
                      <=> \E t \in Plies : t > FirstBlocked(c) /\ ~Blocked(t, c)
                /\ fates[c]["permanent_block"] = 1
                      <=> \A t \in Plies : t >= FirstBlocked(c) => Blocked(t, c)

C10_Witness ==
    /\ Done
    /\ Len(positions) >= 4
    /\ \E c \in COLORS :
        /\ \A t \in Plies : OnStart(t, c)
        /\ Blocked(0, c) /\ ~Blocked(1, c) /\ Blocked(Len(positions) - 1, c)
        /\ fates[c]["temporary_block"] = 1

\* the pawn of c was friendly-blocked at some ply, stood unblocked on its
\* start square at a later ply, and after that left it by advancing to `to`
BlockedFreedThenAdvanced(c, to) ==
    /\ HasMoveOff(c)
    /\ Advanced(c, to)
    /\ \E t1, t2 \in Plies :
        /\ t1 < t2 /\ t2 < FirstMoveOff(c)
        /\ Blocked(t1, c)
        /\ OnStart(t2, c) /\ ~Blocked(t2, c)

\* C11: a pawn that is friendly-blocked, later stands unblocked on its start
\* square and later still advances one or two squares gets bucket B4 or B5
\* from the bucket classifier, while the fate tracker counts the move
\* (push_f3 for one square, push_f4 for two) and not temporary_block.
C11_BlockThenPush ==
    Done => \A c \in COLORS :
        /\ BlockedFreedThenAdvanced(c, AheadSq(c)) =>
                buckets[c] \in {"B4", "B5"} /\ Counted(c) = {"push_f3"}
        /\ BlockedFreedThenAdvanced(c, TwoAheadSq(c)) =>
                buckets[c] \in {"B4", "B5"} /\ Counted(c) = {"push_f4"}

C11_Witness ==
    /\ Done
    /\ \E c \in COLORS :
        /\ BlockedFreedThenAdvanced(c, TwoAheadSq(c))
        /\ buckets[c] = "B4"
        /\ fates[c]["push_f4"] = 1 /\ fates[c]["temporary_block"] = 0

\* the square one rank ahead of c's start square on file f, and what stands
\* on it at ply t
SquareAhead(f, c) == IF c = WHITE THEN 16 + f ELSE 40 + f
OccupantAhead(t, f, c) == At(positions, t).piece_map[SquareAhead(f, c)]

\* what get_blocking_info is to return for an occupant of the square ahead
InfoAsSpecified(info, occupant, c) ==
    /\ occupant = None => info = <<FALSE, FALSE, FALSE, NoPieceType>>
    /\ (occupant # None /\ occupant[2] = c) =>
            info = <<occupant[1] # PAWN, FALSE, TRUE, occupant[1]>>
    /\ (occupant # None /\ occupant[2] # c) =>
            info = <<FALSE, TRUE, TRUE, occupant[1]>>
    /\ ~(info[1] /\ info[2])
    /\ info[3] <=> occupant # None

\* C12: get_blocking_info is a function of the square one rank ahead of the
\* side's start square on the file: empty gives (false, false, false, none);
\* a same-side occupant gives friendly_non_pawn = (not a pawn), enemy = false,
\* any_block = true; an opposing occupant gives (false, true, true);
\* blocker_kind is the occupant's kind; the two first flags are never both
\* true and any_block is true iff the square is occupied.
C12_BlockingInfo ==
    Done => \A t \in Plies, f \in 0..7, c \in COLORS :
        InfoAsSpecified(get_blocking_info(At(positions, t), f, c),
                        OccupantAhead(t, f, c), c)

C12_Witness ==
    /\ Done
    /\ \E t \in Plies, c \in COLORS :
        /\ \E f \in 0..7 :
            /\ OccupantAhead(t, f, c) = Piece(KNIGHT, ~c)
            /\ get_blocking_info(At(positions, t), f, c) = <<FALSE, TRUE, TRUE, KNIGHT>>
        /\ \E f \in 0..7 :
            /\ OccupantAhead(t, f, c) = Piece(PAWN, c)
            /\ get_blocking_info(At(positions, t), f, c) = <<FALSE, FALSE, TRUE, PAWN>>
        /\ \E f \in 0..7, d \in COLORS :
            /\ OccupantAhead(t, f, d) = Piece(KNIGHT, d)
            /\ get_blocking_info(At(positions, t), f, d) = <<TRUE, FALSE, TRUE, KNIGHT>>

\* the flags of a trace row
RowFlagged(row) == row.friendly_np_block = 1 \/ row.enemy_block = 1

\* C13 as claimed: for every position, file and side, and in every trace
\* row, any_block <=> (friendly_non_pawn or enemy).
C13_AnyIffFlagged ==
    Done =>
        /\ \A t \in Plies, f \in 0..7, c \in COLORS :
            get_blocking_info(At(positions, t), f, c)[3]
                <=> (get_blocking_info(At(positions, t), f, c)[1]
                        \/ get_blocking_info(At(positions, t), f, c)[2])
        /\ \A k \in DOMAIN trace : trace[k].any_block = 1 <=> RowFlagged(trace[k])

\* the flags agree with the amended relation for an occupant of the square
\* ahead
FlagsAsAmended(info, occupant, c) ==
    /\ (info[1] \/ info[2]) => info[3]
    /\ (info[3] /\ ~info[1] /\ ~info[2]) <=> occupant = Piece(PAWN, c)

\* C13 amended: (friendly_non_pawn or enemy) implies any_block, and any_block
\* holds with neither flag exactly when the square ahead holds a pawn of the
\* same side; a trace row has any_block = 1 with neither flag exactly when it
\* is the row of an exposed pawn with a same-side pawn ahead.
C13_AnyBlockFlags ==
    Done =>
        /\ \A t \in Plies, f \in 0..7, c \in COLORS :
            FlagsAsAmended(get_blocking_info(At(positions, t), f, c),
                           OccupantAhead(t, f, c), c)
        /\ \A k \in DOMAIN trace :
            /\ RowFlagged(trace[k]) => trace[k].any_block = 1
            /\ (trace[k].any_block = 1 /\ ~RowFlagged(trace[k]))
                <=> /\ trace[k].exposed = 1
                    /\ OccupantAhead(cell_ply(k), cell_file(k), cell_color(k))
                            = Piece(PAWN, cell_color(k))

C13_Witness ==
    /\ Done
    /\ \E k \in DOMAIN trace :
        /\ trace[k].exposed = 1 /\ trace[k].any_block = 1
        /\ trace[k].friendly_np_block = 0 /\ trace[k].enemy_block = 0
        /\ trace[k].blocker_piece = "p"

\* only ply 0 is retained, and it is the standard layout
OnlyStandardPly0 ==
    /\ Done
    /\ Len(positions) = 1
    /\ At(positions, 0).piece_map = StandardMap

\* a rate that is defined and equal to 0
ZeroRate(rate) == rate # None /\ rate[1] = 0 /\ rate[2] > 0

\* C14: a game from the standard layout that retains only ply 0 (no moves,
\* or a cap of one ply) reports exposure 8 and the three rates 0 for each
\* side, and a trace of 16 rows, all with exposed = 1 and friendly_np_block
\* = 0; the same when the layout comes from the SetUp/FEN headers.
C14_StartingPosition ==
    OnlyStandardPly0 =>
        /\ \A side \in {"white", "black"} :
            /\ summary[side].exposure = 8
            /\ ZeroRate(summary[side].SPBTS_friendlyNP)
            /\ ZeroRate(summary[side].SPBTS_enemy)
            /\ ZeroRate(summary[side].SPBTS_any)
        /\ Len(trace) = 16
        /\ \A k \in DOMAIN trace :
            trace[k].exposed = 1 /\ trace[k].friendly_np_block = 0

C14_Witness ==
    /\ OnlyStandardPly0
    /\ headers.SetUp = "1" /\ headers.FEN # None
    /\ max_plies = 1 /\ moves_played >= 1
    /\ Len(trace) = 16
    /\ summary["white"].exposure = 8 /\ summary["black"].exposure = 8

\* the (ply, side, file) combinations the rows of the trace stand for
RowKeys == {<<trace[k].ply_index, trace[k].color, trace[k].file>> : k \in DOMAIN trace}

\* C15: the trace has exactly 8 x 2 x len(positions) rows, one for every
\* combination of retained ply index, side and file, none duplicated or
\* missing, with ply_index ranging over 0..len(positions)-1.
C15_TraceRows ==
    Done =>
        /\ Len(trace) = 8 * 2 * Len(positions)
        /\ RowKeys = Plies \X {"white", "black"} \X {FILES[i] : i \in DOMAIN FILES}

C15_Witness ==
    /\ Done
    /\ Len(positions) = 4
    /\ Len(trace) = 64
    /\ \E k \in DOMAIN trace :
        trace[k].ply_index = 3 /\ trace[k].color = "black" /\ trace[k].file = "h"

\* the replay loop of a game has ended and its positions are analysed
Replayed == Done /\ positions # <<>>

Min(a, b) == IF a <= b THEN a ELSE b
Max(a, b) == IF a >= b THEN a ELSE b

\* C16 as claimed: the number of positions retained equals
\* min(moves_played, max_plies).
C16_MinMovesCap == Replayed => Len(positions) = Min(moves_played, max_plies)

\* C16 amended: the start position is retained as well, so the number of
\* positions equals min(moves_played + 1, max_plies) for max_plies >= 1, and
\* it is 1 for max_plies = 0.
C16_RetainedCount ==
    Replayed => Len(positions) = Min(moves_played + 1, Max(max_plies, 1))

C16_Witness ==
    /\ Replayed
    /\ max_plies = 3 /\ moves_played = 3
    /\ Len(positions) = 3 /\ Len(moves) = 2

\* C17: the replay loop never retains more than max_plies positions, for
\* every max_plies >= 0, and never more than moves_played + 1 (one position
\* per move played and the start position, none repeated).
C17_AtMostCap ==
    Replayed =>
        /\ Len(positions) <= max_plies
        /\ Len(positions) <= moves_played + 1
        /\ \A t \in Plies : t >= 1 => At(positions, t) # At(positions, t - 1)

\* the start square of c on file f; the pawn of c on file f is on it at ply t
StartSquare(f, c) == IF c = WHITE THEN 8 + f ELSE 48 + f
ExposedAt(t, f, c) == At(positions, t).piece_map[StartSquare(f, c)] = Piece(PAWN, c)

\* the exposed pawn of c on file f faces, at ply t, a piece of the kind asked
\* for: a same-side non-pawn ("friendly_np"), an opposing piece ("enemy"), any
\* piece ("any")
BlockedAt(t, f, c, kind) ==
    /\ ExposedAt(t, f, c)
    /\ OccupantAhead(t, f, c) # None
    /\ kind = "friendly_np" =>
            OccupantAhead(t, f, c)[2] = c /\ OccupantAhead(t, f, c)[1] # PAWN
    /\ kind = "enemy" => OccupantAhead(t, f, c)[2] # c

ExposureOf(c) == Cardinality({cell \in Plies \X (0..7) : ExposedAt(cell[1], cell[2], c)})
BlocksOf(c, kind) ==
    Cardinality({cell \in Plies \X (0..7) : BlockedAt(cell[1], cell[2], c, kind)})
FileExposureOf(c, f) == Cardinality({t \in Plies : ExposedAt(t, f, c)})
FileBlocksOf(c, f) == Cardinality({t \in Plies : BlockedAt(t, f, c, "friendly_np")})

\* a rate that is defined and greater than 0
PositiveRate(rate) == rate # None /\ rate[1] > 0 /\ rate[2] > 0

\* the entry of c's side in the summary
SummaryOf(c) == summary[IF c = WHITE THEN "white" ELSE "black"]

\* C18: a rate of the summary is None exactly when its denominator is zero:
\* with exposure 0 the three rates are None; with exposure > 0 each rate is its
\* aggregate over the exposure, and the per-file friendly rate of a file is
\* None iff the file's exposure count is 0 and otherwise the file's
\* friendly-block count over the file's exposure count.
C18_Rates ==
    Replayed => \A c \in COLORS :
        /\ ExposureOf(c) = 0 =>
            /\ SummaryOf(c).SPBTS_friendlyNP = None
            /\ SummaryOf(c).SPBTS_enemy = None
            /\ SummaryOf(c).SPBTS_any = None
        /\ ExposureOf(c) > 0 =>
            /\ SummaryOf(c).SPBTS_friendlyNP = <<BlocksOf(c, "friendly_np"), ExposureOf(c)>>
            /\ SummaryOf(c).SPBTS_enemy = <<BlocksOf(c, "enemy"), ExposureOf(c)>>
            /\ SummaryOf(c).SPBTS_any = <<BlocksOf(c, "any"), ExposureOf(c)>>
            /\ \A f \in 0..7 :
                /\ SummaryOf(c).per_file_friendlyNP[FILES[f + 1]] = None
                        <=> FileExposureOf(c, f) = 0
                /\ FileExposureOf(c, f) > 0 =>
                        SummaryOf(c).per_file_friendlyNP[FILES[f + 1]]
                            = <<FileBlocksOf(c, f), FileExposureOf(c, f)>>

C18_Witness ==
    /\ Replayed
    /\ Len(positions) >= 2
    /\ SummaryOf(WHITE).exposure = 0
    /\ SummaryOf(WHITE).SPBTS_friendlyNP = None
    /\ SummaryOf(BLACK).exposure > 0
    /\ SummaryOf(BLACK).SPBTS_any # None
    /\ SummaryOf(WHITE).per_file_friendlyNP = None
    /\ \E f \in 0..7 : PositiveRate(SummaryOf(BLACK).per_file_friendlyNP[FILES[f + 1]])

\* the number of c's trace rows with 1 in a column (on file `letter` if it is
\* not "all")
RowsWith(c, column, letter) ==
    Cardinality({k \in DOMAIN trace :
        /\ trace[k].color = (IF c = WHITE THEN "white" ELSE "black")
        /\ trace[k][column] = 1
        /\ letter # "all" => trace[k].file = letter})

\* C19: the summary is a reduction of the trace: a side's exposure is the
\* number of its rows with exposed = 1; its friendly, enemy and any aggregates
\* (rate x exposure) are the numbers of its rows with friendly_np_block = 1,
\* enemy_block = 1 and any_block = 1; its SPBTS_friendlyNP, and its per-file
\* rate of a file, are > 0 iff some row of the side (on the file) has
\* friendly_np_block = 1.
C19_SummaryOfTrace ==
    Replayed => \A c \in COLORS :
        /\ SummaryOf(c).exposure = RowsWith(c, "exposed", "all")
        /\ SummaryOf(c).exposure > 0 =>
            /\ SummaryOf(c).SPBTS_friendlyNP
                    = <<RowsWith(c, "friendly_np_block", "all"), SummaryOf(c).exposure>>
            /\ SummaryOf(c).SPBTS_enemy
                    = <<RowsWith(c, "enemy_block", "all"), SummaryOf(c).exposure>>
            /\ SummaryOf(c).SPBTS_any
                    = <<RowsWith(c, "any_block", "all"), SummaryOf(c).exposure>>
        /\ PositiveRate(SummaryOf(c).SPBTS_friendlyNP)
                <=> RowsWith(c, "friendly_np_block", "all") > 0
        /\ \A f \in 0..7 :
            (/\ SummaryOf(c).per_file_friendlyNP # None
             /\ PositiveRate(SummaryOf(c).per_file_friendlyNP[FILES[f + 1]]))
                <=> RowsWith(c, "friendly_np_block", FILES[f + 1]) > 0

C19_Witness ==
    /\ Replayed
    /\ \E c \in COLORS :
        /\ PositiveRate(SummaryOf(c).SPBTS_friendlyNP)
        /\ PositiveRate(SummaryOf(c).per_file_friendlyNP["f"])
        /\ RowsWith(c, "friendly_np_block", "f") = 2
        /\ RowsWith(c, "any_block", "all") > RowsWith(c, "friendly_np_block", "all")

\* the f-pawn of c is on its start square at no retained ply
NeverOnStart(c) == \A t \in Plies : ~OnStart(t, c)

RowOf(t, f, c) == trace[cell_index(t, c, f)]

\* C25: a block is recorded only for an exposed pawn. A trace row of a pawn
\* that is not on its start square has exposed = 0, the three block flags 0
\* and no blocker piece, whatever stands on the square ahead of the start
\* square; no row has friendly_np_block and enemy_block both 1; and the plies
\* the two classifiers record as friendly-blocked are plies at which the
\* f-pawn is on its start square.
C25_BlockOnlyIfExposed ==
    Replayed =>
        /\ \A t \in Plies, f \in 0..7, c \in COLORS :
            /\ RowOf(t, f, c).exposed = bool_int(ExposedAt(t, f, c))
            /\ RowOf(t, f, c).exposed = 0 =>
                /\ RowOf(t, f, c).friendly_np_block = 0
                /\ RowOf(t, f, c).enemy_block = 0
                /\ RowOf(t, f, c).any_block = 0
                /\ RowOf(t, f, c).blocker_piece = NoSymbol
            /\ ~(RowOf(t, f, c).friendly_np_block = 1 /\ RowOf(t, f, c).enemy_block = 1)
        /\ \A t \in Plies, c \in COLORS :
            /\ At(friendly_blocks_list(positions, c), t) => OnStart(t, c)
            /\ t \in blocked_plies_of(positions, c) => OnStart(t, c)

\* a knight stands in front of the start square the f-pawn never stood on,
\* and a row of another file records a block
C25_Witness ==
    /\ Replayed
    /\ \E t \in Plies, c \in COLORS :
        /\ ~OnStart(t, c)
        /\ OccupantAhead(t, F_FILE_IDX, c) = Piece(KNIGHT, c)
        /\ RowOf(t, F_FILE_IDX, c).any_block = 0
        /\ \E f \in 0..7, u \in Plies : RowOf(u, f, c).friendly_np_block = 1

\* C26: the retained positions are independent snapshots. positions[0] is the
\* initial layout (the FEN layout when SetUp is "1" and a FEN header is
\* present, the standard layout otherwise), positions[i] is the board after
\* exactly the first i moves, and this stays so while later moves are applied
\* to the working board, which is the last retained position.
C26_Snapshots ==
    positions # <<>> =>
        /\ At(positions, 0) = (IF headers.SetUp = "1" /\ headers.FEN # None
                               THEN headers.FEN
                               ELSE StandardBoard)
        /\ Len(positions) = Len(moves) + 1
        /\ \A t \in Plies : t >= 1 =>
                At(positions, t) = push(At(positions, t - 1), MoveInto(t)[1], MoveInto(t)[2])
        /\ board = At(positions, Len(positions) - 1)

\* three moves were applied to a FEN layout and four different positions
\* are retained
C26_Witness ==
    /\ Len(positions) = 4
    /\ headers.SetUp = "1" /\ headers.FEN # None
    /\ At(positions, 0) = headers.FEN
    /\ At(positions, 0) # StandardBoard
    /\ \A t, u \in Plies : t # u => At(positions, t) # At(positions, u)
    /\ board # At(positions, 2)

\* the count and the denominator of a rate, 0 for a rate that is None
CountOf(rate) == IF rate = None THEN 0 ELSE rate[1]
DenominatorOf(rate) == IF rate = None THEN 0 ELSE rate[2]

\* the sum of a per-file number over the eight files
SumOverFiles(number(_)) ==
    number("a") + number("b") + number("c") + number("d")
        + number("e") + number("f") + number("g") + number("h")

\* a rate that is defined lies in [0, 1]
UnitRate(rate) == rate # None => 0 <= rate[1] /\ rate[1] <= rate[2] /\ rate[2] > 0

\* the counters of side c as the summary shows them (the counts and
\* denominators of its rates):
\* friendly_np + enemy <= any <= exposure <= 8 x len(positions), and the
\* per-file counts add up to the aggregates
CountersOrdered(c) ==
    /\ SummaryOf(c).exposure = ExposureOf(c)
    /\ SummaryOf(c).exposure <= 8 * Len(positions)
    /\ SummaryOf(c).exposure > 0 =>
        /\ DenominatorOf(SummaryOf(c).SPBTS_friendlyNP) = SummaryOf(c).exposure
        /\ DenominatorOf(SummaryOf(c).SPBTS_enemy) = SummaryOf(c).exposure
        /\ DenominatorOf(SummaryOf(c).SPBTS_any) = SummaryOf(c).exposure
        /\ CountOf(SummaryOf(c).SPBTS_friendlyNP) + CountOf(SummaryOf(c).SPBTS_enemy)
                <= CountOf(SummaryOf(c).SPBTS_any)
        /\ CountOf(SummaryOf(c).SPBTS_any) <= SummaryOf(c).exposure
        /\ SumOverFiles(LAMBDA l : DenominatorOf(SummaryOf(c).per_file_friendlyNP[l]))
                = SummaryOf(c).exposure
        /\ SumOverFiles(LAMBDA l : CountOf(SummaryOf(c).per_file_friendlyNP[l]))
                = CountOf(SummaryOf(c).SPBTS_friendlyNP)

\* the sum of two digit strings of equal length, one digit longer; the carry
\* into place i is raised at a later place where both digits are 1 and is
\* passed on by the places in between where exactly one is
add_digits(a, b) ==
    LET n == Len(a)
        carry_into(i) ==
            IF \E j \in (i + 1)..n :
                    /\ a[j] = 1 /\ b[j] = 1
                    /\ \A k \in (i + 1)..(j - 1) : a[k] + b[k] = 1
            THEN 1
            ELSE 0
    IN  <<carry_into(0)>> \o [i \in 1..n |-> (a[i] + b[i] + carry_into(i)) % 2]

\* x + y for doubles x, y >= 0, as Python adds two floats
float_add(x, y) ==
    IF x = FloatZero THEN y
    ELSE IF y = FloatZero THEN x
    ELSE LET hi == IF x.exp >= y.exp THEN x ELSE y
             lo == IF x.exp >= y.exp THEN y ELSE x
             gap == hi.exp - lo.exp
             zeros == [i \in 1..gap |-> 0]
             total == add_digits(hi.bits \o zeros, zeros \o lo.bits)
         IN  IF total[1] = 1
             THEN round_to_double(hi.exp + 1, total, FALSE)
             ELSE round_to_double(hi.exp, SubSeq(total, 2, Len(total)), FALSE)

\* a <= b for digit strings of equal length
digits_leq(a, b) ==
    \/ a = b
    \/ \E i \in 1..Len(a) : a[i] < b[i] /\ \A k \in 1..(i - 1) : a[k] = b[k]

\* x <= y for doubles x, y >= 0, as Python compares two floats
float_leq(x, y) ==
    \/ x = FloatZero
    \/ /\ y # FloatZero
       /\ \/ x.exp < y.exp
          \/ x.exp = y.exp /\ digits_leq(x.bits, y.bits)

\* the Python float a rate of the summary is
FloatOf(rate) == float_div(rate[1], rate[2])

FloatOne == float_div(1, 1)

\* C28 as claimed: after any replay each side's counters satisfy
\* friendly_np + enemy <= any <= exposure <= 8 x len(positions), the per-file
\* exposure counts sum to exposure and the per-file friendly-block counts sum
\* to friendly_np; every defined rate of the summary lies in [0, 1] and
\* SPBTS_any >= SPBTS_friendlyNP + SPBTS_enemy, the rates and their sum being
\* the floats the summary holds.
C28_RateSum ==
    Replayed => \A c \in COLORS :
        /\ CountersOrdered(c)
        /\ SummaryOf(c).exposure > 0 =>
            /\ float_leq(FloatOf(SummaryOf(c).SPBTS_any), FloatOne)
            /\ float_leq(float_add(FloatOf(SummaryOf(c).SPBTS_friendlyNP),
                                   FloatOf(SummaryOf(c).SPBTS_enemy)),
                         FloatOf(SummaryOf(c).SPBTS_any))

\* C28, amended: the counters satisfy
\* friendly_np + enemy <= any <= exposure <= 8 x len(positions) and the
\* per-file counts sum to exposure and to friendly_np; every defined rate is
\* a quotient count / denominator with 0 <= count <= denominator; as floats,
\* SPBTS_any is at most 1.0, at least SPBTS_friendlyNP and at least
\* SPBTS_enemy (their float sum may exceed it by a rounding error).
C28_CounterBounds ==
    Replayed => \A c \in COLORS :
        /\ CountersOrdered(c)
        /\ UnitRate(SummaryOf(c).SPBTS_friendlyNP)
        /\ UnitRate(SummaryOf(c).SPBTS_enemy)
        /\ UnitRate(SummaryOf(c).SPBTS_any)
        /\ SummaryOf(c).per_file_friendlyNP # None =>
                \A f \in 0..7 : UnitRate(SummaryOf(c).per_file_friendlyNP[FILES[f + 1]])
        /\ SummaryOf(c).exposure > 0 =>
            /\ \E any \in {FloatOf(SummaryOf(c).SPBTS_any)} :
                /\ float_leq(any, FloatOne)
                /\ float_leq(FloatOf(SummaryOf(c).SPBTS_friendlyNP), any)
                /\ float_leq(FloatOf(SummaryOf(c).SPBTS_enemy), any)

\* a side has a friendly and an enemy block whose rates add up, as floats, to
\* more than the rate of any block although the counts add up exactly; a side
\* has a block that is neither (a pawn of its own ahead); a side has lost
\* exposure
C28_Witness ==
    /\ Replayed
    /\ \E c \in COLORS :
        /\ PositiveRate(SummaryOf(c).SPBTS_friendlyNP)
        /\ PositiveRate(SummaryOf(c).SPBTS_enemy)
        /\ SummaryOf(c).SPBTS_any[1]
                = SummaryOf(c).SPBTS_friendlyNP[1] + SummaryOf(c).SPBTS_enemy[1]
        /\ ~float_leq(float_add(FloatOf(SummaryOf(c).SPBTS_friendlyNP),
                                FloatOf(SummaryOf(c).SPBTS_enemy)),
                      FloatOf(SummaryOf(c).SPBTS_any))
    /\ \E c \in COLORS :
        /\ SummaryOf(c).exposure > 0
        /\ SummaryOf(c).SPBTS_any[1]
                > SummaryOf(c).SPBTS_friendlyNP[1] + SummaryOf(c).SPBTS_enemy[1]
    /\ \E c \in COLORS :
        /\ SummaryOf(c).exposure > 0
        /\ SummaryOf(c).exposure < 8 * Len(positions)

\* C29: on the same positions and colour the two classifiers agree on
\* unblocked first moves and inert pawns: with bucket A2 the fate counted is
\* push_f3, with bucket A3 it is push_f4, and with bucket A1 it is
\* never_blocked or none at all, none exactly when the pawn was on its start
\* square at no ply.
C29_BucketFate ==
    Done => \A c \in COLORS :
        /\ buckets[c] = "A2" => Counted(c) = {"push_f3"}
        /\ buckets[c] = "A3" => Counted(c) = {"push_f4"}
        /\ buckets[c] = "A1" =>
            /\ Counted(c) \subseteq {"never_blocked"}
            /\ NoFateCounted(c) <=> NeverOnStart(c)

\* one side never had an f-pawn on its start square (A1, nothing counted)
\* while the other pushed its f-pawn unblocked
C29_Witness ==
    /\ Replayed
    /\ Len(positions) >= 3
    /\ \E c \in COLORS :
        /\ buckets[c] = "A1" /\ NeverOnStart(c) /\ NoFateCounted(c)
        /\ buckets[~c] \in {"A2", "A3"}
        /\ fates[~c]["push_f3"] + fates[~c]["push_f4"] = 1

\* C30: the two replay loops are equivalent. For the same game and the same
\* max_plies classify_f_buckets_from_pgn retains the positions
\* calculate_spbts_for_game retains (same initial layout, same length, same
\* position at every ply), and its labels are the buckets of those positions.
C30_SameWindow ==
    Replayed =>
        /\ pgn_positions(headers, moves, moves_played, max_plies) = positions
        /\ \A c \in COLORS :
            classify_f_buckets_from_pgn(headers, moves, moves_played, max_plies)
                    [IF c = WHITE THEN "white" ELSE "black"] = buckets[c]

\* a game from a FEN layout, longer than the cap: both loops stop at the cap
C30_Witness ==
    /\ Replayed
    /\ headers.SetUp = "1" /\ headers.FEN # None /\ headers.FEN # StandardBoard
    /\ max_plies = 3
    /\ moves_played = 3
    /\ Len(positions) = 3
    /\ Len(pgn_positions(headers, moves, moves_played, max_plies)) = 3
    /\ \E c \in COLORS : buckets[c] \notin {"A1", "pending"}

ReachesEpisodeSection(c) ==
    LET friendly_blocks == friendly_blocks_list(positions, c)
        move_off_ply == find_move_off_ply(exposed_list(positions, c))
    IN  /\ ~(move_off_ply = NoPly /\ ~any_true(friendly_blocks))
        /\ ~(move_off_ply # NoPly /\ ~any_true(Prefix(friendly_blocks, move_off_ply)))

\* C23: the fallback of classify_f_bucket_for_color is unreachable. On every
\* list of positions that gets to the block-episode section a first
\* friendly-blocked ply exists (block_start is not None), and "other" is
\* returned only by the branch of a move off the start square without a
\* friendly block before it.
C23_FallbackUnreachable ==
    Done => \A c \in COLORS :
        /\ ReachesEpisodeSection(c) =>
            /\ find_block_start(friendly_blocks_list(positions, c)) # NoPly
            /\ \E t \in Plies : Blocked(t, c)
            /\ buckets[c] \in {"B4", "B5"}
        /\ buckets[c] = "other" => FreeMoveOff(c) /\ ~ReachesEpisodeSection(c)

\* a call that gets to the episode section with the only block at ply 0, the
\* pawn leaving its start square later
C23_Witness ==
    /\ Done
    /\ Len(positions) >= 3
    /\ \E c \in COLORS :
        /\ ReachesEpisodeSection(c)
        /\ Blocked(0, c)
        /\ \A t \in Plies : t >= 1 => ~Blocked(t, c)
        /\ HasMoveOff(c)

\* some ply is friendly-blocked for c and the first such episode ends at a
\* ply inside the list
EpisodeEndsInside(c) ==
    /\ \E t \in Plies : Blocked(t, c)
    /\ EpisodeEnd(c) < Len(positions)

\* C24: the bucket depends only on the first episode. If the first
\* friendly-block episode ends at a ply block_end < len(positions), the label
\* of the list is the label of its first block_end + 1 positions; so two
\* lists that agree up to and including block_end get the same label,
\* whatever follows.
C24_FirstEpisodeOnly ==
    Done => \A c \in COLORS :
        EpisodeEndsInside(c) =>
            \A n \in (EpisodeEnd(c) + 1)..Len(positions) :
                classify_f_bucket_for_color(Prefix(positions, n), c, max_plies) = buckets[c]

\* after the end of a first episode of one ply a second episode of two plies
\* follows, and the label is still B4
C24_Witness ==
    /\ Done
    /\ Len(positions) = 4
    /\ \E c \in COLORS :
        /\ Blocked(0, c) /\ ~Blocked(1, c) /\ Blocked(2, c) /\ Blocked(3, c)
        /\ EpisodeEndsInside(c)
        /\ EpisodeEnd(c) = 1
        /\ buckets[c] = "B4"

\* C27 as claimed: classify_f_bucket_for_color considers at most max_plies
\* positions: for a list longer than max_plies its result is its result on
\* the first max_plies positions.
C27_AtMostMaxPlies ==
    Done => \A c \in COLORS :
        Len(positions) > max_plies =>
            buckets[c] = classify_f_bucket_for_color(Prefix(positions, max_plies), c, max_plies)

\* the i-th PGN string of the batch (i from 1) and the positions its replay
\* retains
GameOf(i) == pgn_games[i].pgn
PositionsOf(i) ==
    retained_positions(GameOf(i).headers, GameOf(i).mainline, Len(GameOf(i).mainline),
                       max_plies)

\* the exposure of side c in a list of positions: the pawns of c on their
\* start squares, counted over the positions
ExposureIn(position_list, c) ==
    Cardinality({cell \in (1..Len(position_list)) \X (0..7) :
        position_list[cell[1]].piece_map[StartSquare(cell[2], c)] = Piece(PAWN, c)})

\* game i passes the filter, parses and has both sides' exposure at least
\* min_exposure
Eligible(i) ==
    /\ game_filter # None => GameOf(i).variant = game_filter.variant
    /\ GameOf(i).parses
    /\ \A c \in COLORS : ExposureIn(PositionsOf(i), c) >= min_exposure

\* the rows name games of the batch, in input order, no game twice
RowsInInputOrder ==
    \A k \in DOMAIN results :
        /\ results[k].game_id \in 1..Len(pgn_games)
        /\ \A j \in 1..(k - 1) : results[j].game_id < results[k].game_id

\* C21 as claimed: analyze_game_collection never aborts a batch: a game whose
\* analysis raises is skipped and every later game is still processed; the
\* result has at most one row per input game, in input order, and has a row
\* for every game that passes the filter, parses and has both sides' exposure
\* >= min_exposure.
C21_RowForEveryGame ==
    /\ pc # "aborted"
    /\ RowsInInputOrder
    /\ pc = "returned" =>
        /\ game_index = Len(pgn_games)
        /\ \A i \in 1..Len(pgn_games) :
            Eligible(i) => \E k \in DOMAIN results : results[k].game_id = i

====
